---- MODULE Spec2Model ----
(***************************************************************************)
(* A model of auto-boost_2.5.py: the fast-pass / metrics / zones pipeline, *)
(* the per-scene aggregation of metric scores and the CRF zone generator.  *)
(*                                                                         *)
(* Numbers.  Scores are Python floats.  A float is carried here as an      *)
(* integer number of units of 2^-FracBits and every float operation        *)
(* rounds its exact result to FloatPrec significant bits, ties to even, as *)
(* binary64 does with 53 bits.  CRF values (crf, br, new_crf) are carried  *)
(* in hundredths, the resolution of the zones file ("{new_crf:.2f}"); the  *)
(* quarter steps the generator takes are 25 hundredths, exact in binary64. *)
(***************************************************************************)
EXTENDS Integers, Sequences, FiniteSets, TLC

\* ------------------------------------------------------------------ bounds

\* Significant bits of a model float (binary64 has 53).
FloatPrec == 8
\* Fractional bits of the unit a model float is counted in: 1.0 is 2^FracBits.
FracBits == 8
\* Longest score list handed to calculate_std_dev in SpecStd.
MaxLen == 22

\* ------------------------------------------------------- float arithmetic

RECURSIVE Pow2(_)
Pow2(n) == IF n = 0 THEN 1 ELSE 2 * Pow2(n - 1)

\* The float 1.0.
One == Pow2(FracBits)

\* a / b (a >= 0, b > 0) rounded to the nearest integer, ties to even.
RoundHalfEven(a, b) ==
    LET q == a \div b
        r == a % b
    IN  IF 2 * r < b THEN q
        ELSE IF 2 * r > b THEN q + 1
        ELSE IF q % 2 = 0 THEN q ELSE q + 1

\* The spacing of the floats around num / den (num >= 0): the least power of
\* two s with num / den < 2^FloatPrec * s.
RECURSIVE Spacing(_, _, _)
Spacing(num, den, s) ==
    IF num < Pow2(FloatPrec) * s * den THEN s ELSE Spacing(num, den, 2 * s)

\* The float nearest to the rational num / den (den > 0), in units.
RoundF(num, den) ==
    LET mag == IF num < 0 THEN -num ELSE num
        s   == Spacing(mag, den, 1)
        m   == s * RoundHalfEven(mag, den * s)
    IN  IF num < 0 THEN -m ELSE m

FAdd(a, b) == RoundF(a + b, 1)
FSub(a, b) == RoundF(a - b, 1)
\* float * float, float / float
FMul(a, b) == RoundF(a * b, One)
FDiv(a, b) == RoundF(a * One, b)
\* float * int, float / int (the int converts exactly)
FMulInt(a, k) == RoundF(a * k, 1)
FDivInt(a, n) == RoundF(a, n)
\* math.ceil of a float: a Python int.
Ceil(a) == -((-a) \div One)

\* sum(list): Python folds left to right from 0, rounding after each addition.
RECURSIVE FSumFrom(_, _, _)
FSumFrom(list, k, acc) ==
    IF k > Len(list) THEN acc ELSE FSumFrom(list, k + 1, FAdd(acc, list[k]))

FSum(list) == FSumFrom(list, 1, 0)

\* --------------------------------------------------------- calculate_std_dev

\* A filter that also drops the score 0, to compare against.
ValidPositive(score) == score > 0

\* [score for score in score_list if score >= 0]
Valid(score) == score >= 0

Filtered(score_list) == SelectSeq(score_list, Valid)

\* sorted(list): ascending.
RECURSIVE Insert(_, _)
Insert(sorted, x) ==
    IF sorted = <<>> THEN <<x>>
    ELSE IF x <= Head(sorted) THEN <<x>> \o sorted
    ELSE <<Head(sorted)>> \o Insert(Tail(sorted), x)

RECURSIVE SortFrom(_, _, _)
SortFrom(list, k, acc) ==
    IF k > Len(list) THEN acc ELSE SortFrom(list, k + 1, Insert(acc, list[k]))

Sorted(list) == SortFrom(list, 1, <<>>)

\* len // 20, the 0-based index of the 5th percentile.
P5Index(n) == n \div 20

\* int(len // (20/19)), the 0-based index of the 95th percentile.  The float
\* 20/19 is 1.0526315789473684, just below the rational 20/19, and Python's
\* float // is the floor of the exact quotient, so the index is floor(19n/20)
\* for every length a log can have (the two differ only beyond 10^14).
P95Index(n) == (19 * n) \div 20

\* sum(filtered)/len(filtered) divides by zero when nothing is valid.
StdDevFails(score_list) == Len(Filtered(score_list)) = 0

\* (average, percentile_5, percentile_95), for a list with a valid score.
calculate_std_dev(score_list) ==
    LET filtered_score_list == Filtered(score_list)
        sorted_score_list   == Sorted(filtered_score_list)
        n                   == Len(filtered_score_list)
    IN  [average       |-> FDivInt(FSum(filtered_score_list), n),
         percentile_5  |-> sorted_score_list[P5Index(n) + 1],
         percentile_95 |-> sorted_score_list[P95Index(n) + 1]]

\* ------------------------------------------------------------- the parsers

None == "none"

\* get_ranges: [0] followed by each scene's end_frame, in file order.
get_ranges(scenes) == <<0>> \o scenes

\* A score line "<frame>: <score>" matches ([0-9]+): ([0-9]+\.[0-9]+) only when
\* the score is written without a sign; any other line is printed and skipped.
LineMatches(score) == score >= 0

\* A file that is not on disk.
NoScenes == [exists |-> FALSE, scenes |-> <<>>]
NoSsimuLog == [exists |-> FALSE, header |-> FALSE, skip |-> 0, lines |-> <<>>]
NoXpsnrLog == [exists |-> FALSE, lines |-> <<>>]

\* get_ssimu2: the scores of the matching lines, and the skip of the header.
\* A log whose first line is no "skip: <int>" header makes it exit(-2).
SsimuHeaderMissing(log) == ~log.header

get_ssimu2(log) ==
    [ssimu2_scores |-> SelectSeq(log.lines, LineMatches), skip |-> log.skip]

\* W = (4 * Y + U + V) / 6 of one matching XPSNR line <<Y, U, V>>.
Weighted(yuv) == FDivInt(FAdd(FAdd(FMulInt(yuv[1], 4), yuv[2]), yuv[3]), 6)

\* get_xpsnr divides by the number of matching lines: zero for an empty log.
XpsnrFails(log) == Len(log.lines) = 0

\* get_xpsnr: every W divided by the mean of the W's.
get_xpsnr(log) ==
    LET values_weighted == [k \in 1..Len(log.lines) |-> Weighted(log.lines[k])]
        avg_weighted    == FDivInt(FSum(values_weighted), Len(log.lines))
    IN  [k \in 1..Len(log.lines) |-> FDiv(values_weighted[k], avg_weighted)]

\* ----------------------------------------------------------- generate_zones

\* The factor of the boost: 40 when aggressive, 20 otherwise.
AggressiveFactor == 40
NormalFactor == 20

BoostFactor(aggressive) == IF aggressive THEN AggressiveFactor ELSE NormalFactor

\* The boost rounded down instead of up, to compare against.
QuartersFloor(percentile_5, average, factor) ==
    (FMulInt(FMulInt(FSub(One, FDiv(percentile_5, average)), factor), 4)) \div One

\* ceil((1.0 - (percentile_5 / average)) * factor * 4): the boost in quarters
\* of a CRF unit.  average is not 0.
Quarters(percentile_5, average, factor) ==
    Ceil(FMulInt(FMulInt(FSub(One, FDiv(percentile_5, average)), factor), 4))

\* The boost added to crf instead of subtracted, to compare against.
RawCrfAdded(percentile_5, average, crf, aggressive) ==
    crf + 25 * Quarters(percentile_5, average, BoostFactor(aggressive))

\* new_crf before the two limits, in hundredths.
RawCrf(percentile_5, average, crf, aggressive) ==
    crf - 25 * Quarters(percentile_5, average, BoostFactor(aggressive))

\* The lowest limit alone, to compare against.
ClampLowOnly(new_crf, crf, br) ==
    IF new_crf < crf - br THEN crf - br ELSE new_crf

\* The two limits: crf - br the lowest, crf + br the highest allowed CRF.
Clamp(new_crf, crf, br) ==
    LET low == IF new_crf < crf - br THEN crf - br ELSE new_crf
    IN  IF low > crf + br THEN crf + br ELSE low

\* "{new_crf:.2f}": sign, whole part and two decimals of a CRF in hundredths.
Format2f(h) ==
    LET mag == IF h < 0 THEN -h ELSE h
    IN  [neg |-> h < 0, whole |-> mag \div 100, cents |-> mag % 100]

\* The number a formatted CRF reads as, in hundredths.
Parse2f(t) == IF t.neg THEN -(100 * t.whole + t.cents) ELSE 100 * t.whole + t.cents

\* One line of the zones file: "<start> <end> svt-av1 --crf <new_crf>".
ZoneLine(start, end, new_crf) ==
    [start |-> start, end |-> end, encoder |-> "svt-av1", crf |-> Format2f(new_crf)]

\* A writer that never truncates, to compare against.
WriteAlwaysAppend(file, zones_iter, line) == Append(file, line)

\* open(zones_txt_path, "w" if zones_iter == 1 else "a"): the first line of a
\* run truncates the file, the others are appended.
WriteZone(file, zones_iter, line) ==
    IF zones_iter = 1 THEN <<line>> ELSE Append(file, line)

\* p5 / average divides by zero when the average is 0 (and there is a scene).
GenerateFails(ranges, average) == Len(ranges) > 1 /\ average = 0

\* The zones file after the loop of generate_zones over scenes i..N.
RECURSIVE ZonesFrom(_, _, _, _, _, _, _, _)
ZonesFrom(file, i, ranges, percentile_5_total, average, crf, br, aggressive) ==
    IF i > Len(ranges) - 1 THEN file
    ELSE LET new_crf == Clamp(RawCrf(percentile_5_total[i], average, crf, aggressive),
                              crf, br)
             line    == ZoneLine(ranges[i], ranges[i + 1], new_crf)
         IN  ZonesFrom(WriteZone(file, i, line), i + 1, ranges,
                       percentile_5_total, average, crf, br, aggressive)

generate_zones(file, ranges, percentile_5_total, average, crf, br, aggressive) ==
    ZonesFrom(file, 1, ranges, percentile_5_total, average, crf, br, aggressive)

\* ---------------------------------------------------------- calculate_zones

\* The zones file each method writes.
ZonesPath(zones) ==
    CASE zones = 1 -> "ssimu2_zones.txt"
      [] zones = 2 -> "xpsnr_zones.txt"
      [] zones = 3 -> "multiplied_zones.txt"
      [] zones = 4 -> "minimum_zones.txt"

Min(a, b) == IF a <= b THEN a ELSE b

\* Methods 1, 3 and 4 read the SSIMU2 log, methods 2, 3 and 4 the XPSNR log.
UsesSsimu2(zones) == zones \in {1, 3, 4}
UsesXpsnr(zones) == zones \in {2, 3, 4}

\* Method 4, before its loop: the scores the global SSIMU2 average is taken
\* over, for ssimu2_iter in range(len(ssimu2_scores)-1).
Ssimu2Total(ssimu2_scores) ==
    SubSeq(ssimu2_scores, 1, Len(ssimu2_scores) - 1)

\* The number of samples of scene i: (ranges[i+1] - ranges[i]) // skip for the
\* methods that read SSIMU2, ranges[i+1] - ranges[i] for XPSNR alone.
FramesFails(c, i) == UsesSsimu2(c.zones) /\ c.skip = 0

Frames(c, i) ==
    IF UsesSsimu2(c.zones)
    THEN (c.ranges[i + 1] - c.ranges[i]) \div c.skip
    ELSE c.ranges[i + 1] - c.ranges[i]

\* An index counted from the start of the scene, to compare against.
XpsnrIndexRelative(c, i, frames) == (c.skip * frames) + 1

\* Methods 3 and 4: the XPSNR scores averaged for sample `frames` of scene i
\* are xpsnr_scores[xpsnr_index + avg_index - 1], avg_index in range(skip),
\* with xpsnr_index = skip*frames + ranges[i] + 1 (0-based positions).
XpsnrIndex(c, i, frames) == (c.skip * frames) + c.ranges[i] + 1

RECURSIVE XpsnrSumFrom(_, _, _, _)
XpsnrSumFrom(c, xpsnr_index, avg_index, acc) ==
    IF avg_index >= c.skip THEN acc
    ELSE XpsnrSumFrom(c, xpsnr_index, avg_index + 1,
                      FAdd(acc, c.xpsnr_scores[xpsnr_index + avg_index]))

XpsnrAveraged(c, i, frames) ==
    FDivInt(XpsnrSumFrom(c, XpsnrIndex(c, i, frames), 0, 0), c.skip)

\* The reads of one sample that raise IndexError: past the end of a list.
SampleFails(c, i, frames, iter) ==
    \/ UsesSsimu2(c.zones) /\ iter + 1 > Len(c.ssimu2_scores)
    \/ c.zones = 2 /\ iter + 1 > Len(c.xpsnr_scores)
    \/ /\ c.zones \in {3, 4}
       /\ \E avg_index \in 0..(c.skip - 1) :
             XpsnrIndex(c, i, frames) + avg_index > Len(c.xpsnr_scores)

\* The score appended for sample `frames` of scene i, read at cursor iter.
Sample(c, i, frames, iter) ==
    CASE c.zones = 1 -> c.ssimu2_scores[iter + 1]
      [] c.zones = 2 -> c.xpsnr_scores[iter + 1]
      [] c.zones = 3 -> FMul(XpsnrAveraged(c, i, frames), c.ssimu2_scores[iter + 1])
      [] c.zones = 4 -> Min(c.ssimu2_scores[iter + 1],
                            FMul(XpsnrAveraged(c, i, frames), c.ssimu2_average))

\* A cursor that starts every scene at 0, to compare against.
CursorReset(iter) == 0

\* The cursor a scene's loop starts from: the one the previous scene left.
Cursor(iter) == iter

\* The inner loop over the samples of scene i: the chunk, the cursor, and the
\* error that ended it, if any.
RECURSIVE ChunkFrom(_, _, _, _, _)
ChunkFrom(c, i, frames, n, st) ==
    IF frames >= n THEN st
    ELSE IF SampleFails(c, i, frames, st.iter)
         THEN [st EXCEPT !.error = "IndexError"]
         ELSE CHOOSE last \in
                {ChunkFrom(c, i, frames + 1, n, next) :
                   next \in {[st EXCEPT !.chunk = Append(@, Sample(c, i, frames, st.iter)),
                                        !.iter = @ + 1]}} : TRUE

\* The outer loop over the scenes, from scene i on.  (The one-element sets
\* here and below only bind a value, so that TLC computes it once.)
SceneStep(c, i, st) ==
    IF FramesFails(c, i) THEN [st EXCEPT !.error = "ZeroDivisionError"]
    ELSE CHOOSE next \in
           {IF ch.error # None THEN [st EXCEPT !.error = ch.error]
            ELSE IF StdDevFails(ch.chunk)
                 THEN [st EXCEPT !.error = "ZeroDivisionError"]
            ELSE [st EXCEPT !.iter = ch.iter,
                            !.chunks = Append(@, ch.chunk),
                            !.total_scores = @ \o ch.chunk,
                            !.percentile_5_total =
                                Append(@, calculate_std_dev(ch.chunk).percentile_5)] :
              ch \in {ChunkFrom(c, i, 0, Frames(c, i),
                                [chunk |-> <<>>, iter |-> Cursor(st.iter),
                                 error |-> None])}} : TRUE

RECURSIVE ScenesFrom(_, _, _)
ScenesFrom(c, i, st) ==
    IF i > Len(c.ranges) - 1 \/ st.error # None THEN st
    ELSE CHOOSE last \in {ScenesFrom(c, i + 1, next) : next \in {SceneStep(c, i, st)}} :
            TRUE

\* The locals of calculate_zones before its loop.
NoLocals ==
    [iter |-> 0, chunks |-> <<>>, total_scores |-> <<>>,
     percentile_5_total |-> <<>>, average |-> 0, ssimu2_average |-> 0,
     skip |-> 0, ssimu2_scores |-> <<>>, xpsnr_scores |-> <<>>, error |-> None]

\* What stops calculate_zones before its loop, if anything: a log that is not
\* there (open), a log without header (get_ssimu2: exit(-2)), an XPSNR log
\* without a matching line (get_xpsnr), and for method 4 an SSIMU2 average
\* over nothing.
ParseError(zones, ssimu2_log, xpsnr_log) ==
    IF UsesSsimu2(zones) /\ ~ssimu2_log.exists THEN "FileNotFoundError"
    ELSE IF UsesSsimu2(zones) /\ SsimuHeaderMissing(ssimu2_log) THEN "exit"
    ELSE IF UsesXpsnr(zones) /\ ~xpsnr_log.exists THEN "FileNotFoundError"
    ELSE IF UsesXpsnr(zones) /\ XpsnrFails(xpsnr_log) THEN "ZeroDivisionError"
    ELSE IF zones = 4 /\ StdDevFails(Ssimu2Total(get_ssimu2(ssimu2_log).ssimu2_scores))
         THEN "ZeroDivisionError"
    ELSE None

\* What the loop of calculate_zones reads: the parsed logs, the skip (1 for
\* XPSNR alone) and, for method 4, the global SSIMU2 average.
ZoneInputs(zones, ranges, ssimu2_log, xpsnr_log) ==
    LET parsed == IF UsesSsimu2(zones) THEN get_ssimu2(ssimu2_log)
                  ELSE [ssimu2_scores |-> <<>>, skip |-> 1]
    IN  [zones |-> zones, ranges |-> ranges, skip |-> parsed.skip,
         ssimu2_scores |-> parsed.ssimu2_scores,
         xpsnr_scores |-> IF UsesXpsnr(zones) THEN get_xpsnr(xpsnr_log) ELSE <<>>,
         ssimu2_average |->
             IF zones = 4
             THEN calculate_std_dev(Ssimu2Total(parsed.ssimu2_scores)).average
             ELSE 0]

\* The loop, then the statistics over every score consumed.
ZoneStats(c) ==
    CHOOSE loc \in
      {IF looped.error # None THEN looped
       ELSE IF StdDevFails(looped.total_scores)
            THEN [looped EXCEPT !.error = "ZeroDivisionError"]
       ELSE CHOOSE done \in
              {IF GenerateFails(c.ranges, average)
               THEN [looped EXCEPT !.average = average, !.error = "ZeroDivisionError"]
               ELSE [looped EXCEPT !.average = average] :
                 average \in {calculate_std_dev(looped.total_scores).average}} : TRUE :
         looped \in {ScenesFrom(c, 1, [NoLocals EXCEPT
                                          !.skip = c.skip,
                                          !.ssimu2_scores = c.ssimu2_scores,
                                          !.xpsnr_scores = c.xpsnr_scores,
                                          !.ssimu2_average = c.ssimu2_average])}} : TRUE

\* calculate_zones for a valid method, up to its call of generate_zones: the
\* locals it ends with; error names what stopped it, if anything did.
ZoneLocals(zones, ranges, ssimu2_log, xpsnr_log) ==
    IF ParseError(zones, ssimu2_log, xpsnr_log) # None
    THEN [NoLocals EXCEPT !.error = ParseError(zones, ssimu2_log, xpsnr_log)]
    ELSE CHOOSE loc \in
           {ZoneStats(c) : c \in {ZoneInputs(zones, ranges, ssimu2_log, xpsnr_log)}} :
             TRUE

\* ------------------------------------------------------------------- state

VARIABLES
    args,           \* the parsed command line: stage, zones, metrics, skip, ...
    ssimu2zig,      \* TRUE when turbo-metrics is not installed (vs-zip is used)
    pc,             \* the call the script makes next, or "exit"
    exit_code,      \* the exit status of the process, NoExit while it runs
    error,          \* the exception that ended the run, None otherwise
    ran,            \* the calls made so far in this run and what they
                    \* reported (zones written, XPSNR failed), in order
    scenes_file,    \* temp/scenes.json: the end_frame of each scene
    ssimu2_log,     \* <name>_ssimu2.log: the skip of the header, the score lines
    xpsnr_log,      \* <name>_xpsnr.log: the <<Y, U, V>> of each line
    zones_txt,      \* the zones files, by name: the lines of each
    ranges,         \* the scene boundaries get_ranges returned
    locals,         \* the locals calculate_zones ended with
    score_list,     \* calculate_std_dev: the argument of the call
    std_result,     \* calculate_std_dev: "none", "ZeroDivisionError" or the triple
    std_pc          \* "call" before the call, "returned" or "raised" after

runVars == <<args, ssimu2zig, pc, exit_code, error, ran>>
fileVars == <<scenes_file, ssimu2_log, xpsnr_log, zones_txt>>
zoneVars == <<ranges, locals>>
stdVars == <<score_list, std_result, std_pc>>
vars == <<runVars, fileVars, zoneVars, stdVars>>

\* The exit status of a process that has not exited.
NoExit == 0 - 1

\* The variables a specification does not use keep these values.
RunIdle ==
    /\ args = None /\ ssimu2zig = FALSE /\ pc = "idle" /\ exit_code = NoExit
    /\ error = None /\ ran = <<>>
    /\ scenes_file = NoScenes /\ ssimu2_log = NoSsimuLog /\ xpsnr_log = NoXpsnrLog
    /\ zones_txt = None /\ ranges = <<>> /\ locals = NoLocals

StdIdle == score_list = <<>> /\ std_result = "none" /\ std_pc = "idle"

\* ---------------------------------------------------------- the main script

ZonePaths ==
    {"ssimu2_zones.txt", "xpsnr_zones.txt", "multiplied_zones.txt", "minimum_zones.txt"}

\* match stage: the first call of each stage; any other stage only prints.
FirstCall(stage) ==
    CASE stage \in {0, 1} -> "fast_pass"
      [] stage \in {2, 3} -> "get_ranges"
      [] OTHER            -> "invalid"

\* The call was made in this run.
Did(call) == \E k \in DOMAIN ran : ran[k] = call

\* calculate_metrics: match metrics, 1 = SSIMU2, 2 = XPSNR, 3 = XPSNR and
\* then SSIMU2; any other value matches no case.
MetricCalls(metrics) ==
    CASE metrics = 1 -> <<"calculate_ssimu2">>
      [] metrics = 2 -> <<"calculate_xpsnr">>
      [] metrics = 3 -> <<"calculate_xpsnr", "calculate_ssimu2">>
      [] OTHER       -> <<>>

\* The calls of a stage after get_ranges, in order.
CallsAfterRanges(a) ==
    CASE a.stage = 0 -> MetricCalls(a.metrics) \o <<"calculate_zones">>
      [] a.stage = 2 -> MetricCalls(a.metrics)
      [] a.stage = 3 -> <<"calculate_zones">>
      [] OTHER       -> <<>>

\* The call that follows `call` in this run: "exit" after the last one.
NextCall(a, call) ==
    LET calls == CallsAfterRanges(a)
        at    == {k \in DOMAIN calls : calls[k] = call}
    IN  IF call = "get_ranges"
        THEN (IF calls = <<>> THEN "exit" ELSE calls[1])
        ELSE IF \E k \in at : k < Len(calls)
             THEN calls[(CHOOSE k \in at : TRUE) + 1]
             ELSE "exit"

\* The script ends after its last call: exit status 0.
CodeAt(next) == IF next = "exit" THEN 0 ELSE NoExit

\* ranges = get_ranges(scenes_file), in stages 0, 2 and 3.
GetRanges ==
    /\ pc = "get_ranges"
    /\ scenes_file.exists
    /\ ranges' = get_ranges(scenes_file.scenes)
    /\ ran' = Append(ran, "get_ranges")
    /\ pc' = NextCall(args, "get_ranges")
    /\ exit_code' = CodeAt(NextCall(args, "get_ranges"))
    /\ UNCHANGED <<args, ssimu2zig, error, fileVars, locals, stdVars>>

\* The exit status after calculate_zones, the last call of stages 0 and 3:
\* 0 when it returns, 254 after exit(-2), 1 after an uncaught exception.
ZonesExitCode(err) ==
    IF err = None THEN 0 ELSE IF err = "exit" THEN 254 ELSE 1

\* calculate_zones(tmp_dir, ranges, zones, crf) with a method of 1..4.  When
\* it runs to its end the zones file of the method is rewritten; an
\* exception or exit(-2) comes before the first write and leaves it as it is.
CalculateZones ==
    /\ pc = "calculate_zones"
    /\ args.zones \in 1..4
    /\ \E loc \in {ZoneLocals(args.zones, ranges, ssimu2_log, xpsnr_log)} :
           /\ locals' = loc
           /\ zones_txt' =
                IF loc.error # None THEN zones_txt
                ELSE [zones_txt EXCEPT ![ZonesPath(args.zones)] =
                        generate_zones(@, ranges, loc.percentile_5_total, loc.average,
                                       args.crf, args.br, args.aggressive)]
           /\ ran' = IF loc.error = None
                     THEN ran \o <<"calculate_zones", "zones written">>
                     ELSE Append(ran, "calculate_zones")
           /\ error' = IF loc.error \in {None, "exit"} THEN None ELSE loc.error
           /\ exit_code' = ZonesExitCode(loc.error)
    /\ pc' = "exit"
    /\ UNCHANGED <<args, ssimu2zig, scenes_file, ssimu2_log, xpsnr_log, ranges, stdVars>>

\* -------------------------------- SpecZones: stage 3 over the files on disk

\* Most scenes of a scenes file, most lines of a log.
MaxScenes == 2
MaxSamples == 6

\* The lengths a scene may have; a scenes file lists the end frames.
SceneLens == {0, 2, 3}

RECURSIVE EndFrames(_, _, _)
EndFrames(lens, k, acc) ==
    IF k > Len(lens) THEN acc
    ELSE EndFrames(lens, k + 1,
                   Append(acc, (IF acc = <<>> THEN 0 ELSE acc[Len(acc)]) + lens[k]))

SceneFiles ==
    {[exists |-> TRUE, scenes |-> EndFrames(lens, 1, <<>>)] :
        lens \in UNION {[1..n -> SceneLens] : n \in 0..MaxScenes}}

\* The SSIMU2 logs tried: a header and score lines, by shape and length.
ScoreShapes == {"high", "low", "zero", "high_low", "low_high", "last_low", "first_zero"}

ScoreAt(shape, i, n) ==
    CASE shape = "high"       -> 178
      [] shape = "low"        -> 64
      [] shape = "zero"       -> 0
      [] shape = "high_low"   -> IF i % 2 = 1 THEN 178 ELSE 64
      [] shape = "low_high"   -> IF i % 2 = 1 THEN 64 ELSE 178
      [] shape = "last_low"   -> IF i = n THEN 64 ELSE 178
      [] shape = "first_zero" -> IF i = 1 THEN 0 ELSE 100 + 13 * i

ScoreLines(shape, n) == [i \in 1..n |-> ScoreAt(shape, i, n)]

\* Logs of full length and short ones with a skip of 1 or 2, one with the
\* skip of 0 that turbo-metrics records by default, one without header.
SsimuLogs ==
    {[exists |-> TRUE, header |-> TRUE, skip |-> sk, lines |-> ScoreLines(shape, n)] :
        sk \in {1, 2}, shape \in ScoreShapes, n \in {2, MaxSamples}}
    \cup {[exists |-> TRUE, header |-> TRUE, skip |-> 0,
           lines |-> ScoreLines("high", MaxSamples)],
          [exists |-> TRUE, header |-> FALSE, skip |-> 0,
           lines |-> ScoreLines("high", MaxSamples)]}

\* The XPSNR logs tried: <<Y, U, V>> lines, by shape and length.
XpsnrShapes == {"even", "uneven"}

YuvAt(shape, i) ==
    IF shape = "uneven" /\ i % 2 = 1 THEN <<192, 128, 128>> ELSE <<128, 128, 128>>

XpsnrLogs ==
    {[exists |-> TRUE, lines |-> [i \in 1..n |-> YuvAt(shape, i)]] :
        shape \in XpsnrShapes, n \in {0, MaxSamples}}

\* A zones file left by an earlier run.
StaleZones == <<ZoneLine(0, 7, 2825), ZoneLine(7, 9, 3000)>>

\* The deviations (br) tried, in hundredths: none allowed, and the default 10.
Deviations == {0, 1000}

ZonesInit ==
    /\ StdIdle
    /\ \E zones \in 1..4, aggressive \in BOOLEAN, br \in Deviations :
          /\ args = [stage |-> 3, zones |-> zones, metrics |-> 1,
                     skip_given |-> FALSE, skip |-> 0,
                     aggressive |-> aggressive, crf |-> 3000, br |-> br]
          /\ ssimu2_log \in (IF UsesSsimu2(zones) THEN SsimuLogs ELSE {NoSsimuLog})
          /\ xpsnr_log \in (IF UsesXpsnr(zones) THEN XpsnrLogs ELSE {NoXpsnrLog})
    /\ ssimu2zig = FALSE
    /\ pc = FirstCall(3)
    /\ exit_code = NoExit
    /\ error = None
    /\ ran = <<>>
    /\ scenes_file \in SceneFiles
    /\ \E old \in {<<>>, StaleZones} : zones_txt = [p \in ZonePaths |-> old]
    /\ ranges = <<>>
    /\ locals = NoLocals

ZonesNext ==
    \/ GetRanges
    \/ CalculateZones

SpecZones == ZonesInit /\ [][ZonesNext]_vars

\* ------------------------------------------------ claims about the zones

\* calculate_zones ran to its end: generate_zones returned.
ZonesDone == pc = "exit" /\ Did("zones written")

\* The zones file of the method of this run, and its number of scenes.
ZonesFile == zones_txt[ZonesPath(args.zones)]
SceneCount == Len(ranges) - 1

\* The quality factor line i of the zones file reads as, in hundredths.
Emitted(i) == Parse2f(ZonesFile[i].crf)

\* base - raw adjustment of scene i, in hundredths, in the mode of this run.
RawOf(i) ==
    RawCrf(locals.percentile_5_total[i], locals.average, args.crf, args.aggressive)

\* C1: with deviation >= 0, every emitted quality factor is base - raw
\* adjustment clamped into [base - deviation, base + deviation]: never below
\* base - deviation, never above base + deviation, the unclamped value when
\* that lies within, and exactly base - deviation when the raw adjustment
\* exceeds deviation.
C1_FactorClamped ==
    (ZonesDone /\ args.br >= 0) =>
        \A i \in 1..SceneCount :
            /\ Emitted(i) >= args.crf - args.br
            /\ Emitted(i) <= args.crf + args.br
            /\ (args.crf - RawOf(i) > args.br) => Emitted(i) = args.crf - args.br
            /\ (RawOf(i) - args.crf > args.br) => Emitted(i) = args.crf + args.br
            /\ (RawOf(i) >= args.crf - args.br /\ RawOf(i) <= args.crf + args.br)
                  => Emitted(i) = RawOf(i)

\* C1 witness: a run with one scene clamped at the lowest and another at the
\* highest allowed quality factor.
C1_Witness ==
    /\ ZonesDone
    /\ args.br >= 0
    /\ \E i, j \in 1..SceneCount :
          /\ args.crf - RawOf(i) > args.br
          /\ Emitted(i) = args.crf - args.br
          /\ RawOf(j) - args.crf > args.br
          /\ Emitted(j) = args.crf + args.br

C3_FactorMonotonic ==
    ZonesDone =>
        \A i, j \in 1..SceneCount :
            locals.percentile_5_total[i] <= locals.percentile_5_total[j] =>
                /\ RawOf(i) <= RawOf(j)
                /\ Emitted(i) <= Emitted(j)

\* C3 witness: two scenes of one run with different p5 and different factors.
C3_Witness ==
    /\ ZonesDone
    /\ \E i, j \in 1..SceneCount :
          /\ locals.percentile_5_total[i] < locals.percentile_5_total[j]
          /\ RawOf(i) < RawOf(j)
          /\ Emitted(i) < Emitted(j)

\* The raw adjustment magnitude of scene i in quarters of a CRF unit, in
\* aggressive and in non-aggressive mode.
MagnitudeOf(i, aggressive) ==
    (args.crf - RawCrf(locals.percentile_5_total[i], locals.average, args.crf,
                       aggressive)) \div 25

RatioBelowOne(i) == FDiv(locals.percentile_5_total[i], locals.average) < One

\* C4 as claimed: for ratio < 1 the aggressive raw adjustment is exactly
\* double the non-aggressive one.
C4_ExactlyDouble ==
    ZonesDone =>
        \A i \in 1..SceneCount :
            RatioBelowOne(i) => MagnitudeOf(i, TRUE) = 2 * MagnitudeOf(i, FALSE)

\* C4 amended: for ratio < 1 the aggressive raw adjustment is double the
\* non-aggressive one or a quarter (0.25) less than double: rounding up to a
\* quarter comes after the multiplication by 40 or 20.
C4_DoubleOrQuarterLess ==
    ZonesDone =>
        \A i \in 1..SceneCount :
            RatioBelowOne(i) =>
                \/ MagnitudeOf(i, TRUE) = 2 * MagnitudeOf(i, FALSE)
                \/ MagnitudeOf(i, TRUE) = 2 * MagnitudeOf(i, FALSE) - 1

\* C4 witness: a scene with ratio < 1 whose aggressive adjustment is a
\* quarter less than double the non-aggressive one.
C4_Witness ==
    /\ ZonesDone
    /\ \E i \in 1..SceneCount :
          /\ RatioBelowOne(i)
          /\ MagnitudeOf(i, FALSE) > 0
          /\ MagnitudeOf(i, TRUE) = 2 * MagnitudeOf(i, FALSE) - 1

\* C8 as claimed: under method 1, when every score of the series has the same
\* positive value, the global mean and every scene's p5 equal that value, the
\* raw adjustment is 0 and every zone line carries the base quality factor.
C8_UniformKeepsBase ==
    (/\ ZonesDone
     /\ args.zones = 1
     /\ \A k \in DOMAIN locals.ssimu2_scores :
           locals.ssimu2_scores[k] = locals.ssimu2_scores[1]
                /\ locals.ssimu2_scores[k] > 0) =>
        /\ locals.average = locals.ssimu2_scores[1]
        /\ \A i \in 1..SceneCount :
              /\ locals.percentile_5_total[i] = locals.ssimu2_scores[1]
              /\ MagnitudeOf(i, args.aggressive) = 0
              /\ Emitted(i) = args.crf

\* The flat score sequence methods 1 and 2 partition, and its stride.
Series == IF args.zones = 1 THEN locals.ssimu2_scores ELSE locals.xpsnr_scores
Stride == IF args.zones = 1 THEN locals.skip ELSE 1

\* The size of window i, and the total size of the windows before it.
WindowSize(i) == (ranges[i + 1] - ranges[i]) \div Stride

RECURSIVE WindowStart(_)
WindowStart(i) == IF i = 1 THEN 0 ELSE WindowStart(i - 1) + WindowSize(i - 1)

\* C9: for N+1 boundaries and a stride S >= 1 the aggregation of methods 1
\* and 2 yields exactly N per-scene statistics; window i holds the
\* (b[i+1] - b[i]) / S (rounded down) entries of the flat sequence that start
\* at the total size of the windows before it (all of them within the
\* sequence), and the global statistics are those of the concatenation of
\* the windows.
C9_WindowsPartitionSeries ==
    (ZonesDone /\ args.zones \in {1, 2}) =>
        /\ Stride >= 1
        /\ Len(locals.chunks) = SceneCount
        /\ Len(locals.percentile_5_total) = SceneCount
        /\ WindowStart(SceneCount + 1) <= Len(Series)
        /\ \A i \in 1..SceneCount :
              /\ locals.chunks[i] =
                    SubSeq(Series, WindowStart(i) + 1, WindowStart(i) + WindowSize(i))
              /\ locals.percentile_5_total[i] =
                    calculate_std_dev(locals.chunks[i]).percentile_5
        /\ locals.iter = WindowStart(SceneCount + 1)
        /\ locals.total_scores = SubSeq(Series, 1, WindowStart(SceneCount + 1))
        /\ locals.average = calculate_std_dev(locals.total_scores).average

\* C9 witness: two scenes under method 1 with a stride of 2, one of a length
\* the stride does not divide, whose windows differ.
C9_Witness ==
    /\ ZonesDone
    /\ args.zones = 1
    /\ locals.skip = 2
    /\ SceneCount = 2
    /\ \E i \in 1..SceneCount : (ranges[i + 1] - ranges[i]) % 2 = 1
    /\ locals.chunks[1] # locals.chunks[2]

\* The XPSNR scores method 4 averages for the sample at 0-based position f
\* of scene i: the Stride-many from frame Stride*f + ranges[i] on.
WindowAverage(i, f) ==
    FDivInt(FSum(SubSeq(locals.xpsnr_scores,
                        locals.skip * f + ranges[i] + 1,
                        locals.skip * f + ranges[i] + locals.skip)),
            locals.skip)

\* The number of SSIMU2 scores consumed by the scenes before scene i.
RECURSIVE ConsumedBefore(_)
ConsumedBefore(i) ==
    IF i = 1 THEN 0 ELSE ConsumedBefore(i - 1) + Len(locals.chunks[i - 1])

\* C10 as claimed: under method 4 every combined score is
\* min(ssimu2_score, xpsnr_window_average * M), with M the mean of every
\* non-negative score of the whole parsed SSIMU2 series.
C10_MinimumUsesGlobalMean ==
    (ZonesDone /\ args.zones = 4) =>
        LET M == calculate_std_dev(locals.ssimu2_scores).average
        IN  /\ locals.ssimu2_average = M
            /\ \A i \in 1..SceneCount :
                  \A f \in 1..Len(locals.chunks[i]) :
                      locals.chunks[i][f] =
                          Min(locals.ssimu2_scores[ConsumedBefore(i) + f],
                              FMul(WindowAverage(i, f - 1), M))

\* C11: under method 3 with stride S every scene yields one combined score
\* per SSIMU2 sample it consumes (one running cursor over the SSIMU2 series);
\* the score at scene-relative offset f is the SSIMU2 score times the average
\* of exactly the S XPSNR samples at the absolute frames S*f + b[i] up to
\* S*f + b[i] + S - 1, all of them inside the scene's frame range; a window
\* that averages to 1.0 leaves the SSIMU2 score as it is.
C11_MultipliedByWindowAverage ==
    (ZonesDone /\ args.zones = 3) =>
        /\ Len(locals.chunks) = SceneCount
        /\ locals.iter = ConsumedBefore(SceneCount + 1)
        /\ Len(locals.total_scores) = locals.iter
        /\ \A i \in 1..SceneCount :
              /\ Len(locals.chunks[i]) = (ranges[i + 1] - ranges[i]) \div locals.skip
              /\ \A f \in 1..Len(locals.chunks[i]) :
                    /\ ranges[i] <= locals.skip * (f - 1) + ranges[i]
                    /\ locals.skip * (f - 1) + ranges[i] + locals.skip - 1 < ranges[i + 1]
                    /\ locals.skip * (f - 1) + ranges[i] + locals.skip
                          <= Len(locals.xpsnr_scores)
                    /\ locals.chunks[i][f] =
                          FMul(WindowAverage(i, f - 1),
                               locals.ssimu2_scores[ConsumedBefore(i) + f])
                    /\ WindowAverage(i, f - 1) = One =>
                          locals.chunks[i][f] = locals.ssimu2_scores[ConsumedBefore(i) + f]

\* C11 witness: method 3 over two scenes, the second starting at an odd
\* frame, with XPSNR samples that differ from frame to frame: a window that
\* does not average to 1.0 changes the SSIMU2 score it is multiplied with.
C11_Witness ==
    /\ ZonesDone
    /\ args.zones = 3
    /\ SceneCount = 2
    /\ ranges[2] % 2 = 1
    /\ \E f \in 1..Len(locals.chunks[2]) :
          /\ WindowAverage(2, f - 1) # One
          /\ locals.chunks[2][f] # locals.ssimu2_scores[ConsumedBefore(2) + f]
          /\ locals.chunks[2][f] =
                FMul(WindowAverage(2, f - 1), locals.ssimu2_scores[ConsumedBefore(2) + f])

\* ---------------------------------------- SpecStd: calculate_std_dev alone

\* The score lists tried: by shape and length.
Shapes == {"asc", "desc", "holes", "one_bad", "invalid", "flat", "mixed"}

ShapeVal(shape, i, n) ==
    CASE shape = "asc"     -> i
      [] shape = "desc"    -> n - i
      [] shape = "one_bad" -> IF i = 2 THEN 0 - 1 ELSE i
      [] shape = "holes"   -> IF i % 3 = 0 THEN 0 - i ELSE n + 1 - i
      [] shape = "invalid" -> 0 - 1
      [] shape = "flat"    -> 178
      [] shape = "mixed"   -> IF i % 2 = 0 THEN 0 - 1 ELSE 170 + ((7 * i) % 11)

ShapeList(shape, n) == [i \in 1..n |-> ShapeVal(shape, i, n)]

StdInit ==
    /\ RunIdle
    /\ \E shape \in Shapes, n \in 0..MaxLen : score_list = ShapeList(shape, n)
    /\ std_result = "none"
    /\ std_pc = "call"

StdReturn ==
    /\ std_pc = "call"
    /\ ~StdDevFails(score_list)
    /\ std_result' = calculate_std_dev(score_list)
    /\ std_pc' = "returned"
    /\ UNCHANGED <<score_list, runVars, fileVars, zoneVars>>

StdRaise ==
    /\ std_pc = "call"
    /\ StdDevFails(score_list)
    /\ std_result' = "ZeroDivisionError"
    /\ std_pc' = "raised"
    /\ UNCHANGED <<score_list, runVars, fileVars, zoneVars>>

StdNext == StdReturn \/ StdRaise

SpecStd == StdInit /\ [][StdNext]_vars

\* The number of valid (non-negative) entries of a list.
ValidCount(list) == Cardinality({i \in DOMAIN list : list[i] >= 0})

\* The sum of the valid entries of a list, added in list order.
RECURSIVE ValidSumFrom(_, _, _)
ValidSumFrom(list, k, acc) ==
    IF k > Len(list) THEN acc
    ELSE ValidSumFrom(list, k + 1, IF list[k] >= 0 THEN FAdd(acc, list[k]) ELSE acc)

\* x is the entry at 0-based position k of the valid entries in ascending order.
HasRank(list, x, k) ==
    /\ \E i \in DOMAIN list : list[i] >= 0 /\ list[i] = x
    /\ Cardinality({i \in DOMAIN list : list[i] >= 0 /\ list[i] < x}) <= k
    /\ k < Cardinality({i \in DOMAIN list : list[i] >= 0 /\ list[i] <= x})

\* C7: for every score list with at least one non-negative entry,
\* calculate_std_dev returns (it does not raise) the mean, p5 and p95 of the
\* non-negative entries alone: with n their number, mean = sum/n, p5 is the
\* entry of rank floor(n/20) and p95 the entry of rank floor(19n/20) in
\* ascending order, both ranks within 0..n-1; [1..20] gives p5 = 2, p95 = 20.
C7_StdDevOverValid ==
    LET n == ValidCount(score_list)
    IN  /\ (n >= 1 /\ std_pc # "call") => std_pc = "returned"
        /\ std_pc = "returned" =>
              /\ n >= 1
              /\ n \div 20 \in 0..(n - 1)
              /\ (19 * n) \div 20 \in 0..(n - 1)
              /\ std_result.average = FDivInt(ValidSumFrom(score_list, 1, 0), n)
              /\ HasRank(score_list, std_result.percentile_5, n \div 20)
              /\ HasRank(score_list, std_result.percentile_95, (19 * n) \div 20)
        /\ (std_pc = "returned" /\ score_list = [i \in 1..20 |-> i]) =>
              /\ std_result.percentile_5 = 2
              /\ std_result.percentile_95 = 20

\* C7 witness: a returned call on a list that holds a negative entry and at
\* least 20 valid ones, so that p5 is not the minimum.
C7_Witness ==
    /\ std_pc = "returned"
    /\ \E i \in DOMAIN score_list : score_list[i] < 0
    /\ ValidCount(score_list) >= 20
    /\ ~HasRank(score_list, std_result.percentile_5, 0)

\* ------------------------------------------- Spec: one run of the script

\* default_skip: 3 when turbo-metrics is not installed, 0 when it is.
default_skip(zig) == IF zig THEN 3 ELSE 0

\* skip = args.skip if args.skip is not None else default_skip
skip(a, zig) == IF a.skip_given THEN a.skip ELSE default_skip(zig)

\* The frames of the source: the end of the last scene.
TotalFrames(rs) == IF rs = <<>> THEN 0 ELSE rs[Len(rs)]

\* clip[ranges[i]:ranges[i+1]].std.SelectEvery(cycle, offsets=1): the frames
\* vs-zip scores in a scene of the given length.
SelectEveryCount(length, cycle) ==
    (length \div cycle) + (IF 1 < length % cycle THEN 1 ELSE 0)

RECURSIVE VsZipCount(_, _, _)
VsZipCount(rs, i, cycle) ==
    IF i >= Len(rs) THEN 0
    ELSE SelectEveryCount(rs[i + 1] - rs[i], cycle) + VsZipCount(rs, i + 1, cycle)

\* The scene lists av1an may write, the scores the SSIMU2 tools may report.
ScenesWritten == {<<2, 5>>, <<3>>, <<4, 6>>}
ToolShapes == {"high", "low_high"}

\* The strides -S gives when it is given.
GivenSkips == {2, 3}

\* The files an earlier run left behind.
LeftScenes == [exists |-> TRUE, scenes |-> <<2, 5>>]
LeftSsimuLog ==
    [exists |-> TRUE, header |-> TRUE, skip |-> 2,
     lines |-> ScoreLines("high_low", 2)]
LeftXpsnrLog == [exists |-> TRUE, lines |-> [i \in 1..5 |-> YuvAt("uneven", i)]]

\* The command lines tried; a `given` of 0 stands for a run without -S.
Init ==
    /\ StdIdle
    /\ \E stage \in 0..4, zones \in 1..5, metrics \in 1..4,
          given \in {0} \cup GivenSkips :
          /\ args = [stage |-> stage, zones |-> zones, metrics |-> metrics,
                     skip_given |-> given # 0, skip |-> given,
                     aggressive |-> FALSE, crf |-> 3000, br |-> 1000]
          /\ pc = FirstCall(stage)
    /\ ssimu2zig \in BOOLEAN
    /\ exit_code = NoExit
    /\ error = None
    /\ ran = <<>>
    /\ \E left \in BOOLEAN :
          /\ scenes_file = IF left THEN LeftScenes ELSE NoScenes
          /\ ssimu2_log = IF left THEN LeftSsimuLog ELSE NoSsimuLog
          /\ xpsnr_log = IF left THEN LeftXpsnrLog ELSE NoXpsnrLog
          /\ zones_txt = [p \in ZonePaths |-> IF left THEN StaleZones ELSE <<>>]
    /\ ranges = <<>>
    /\ locals = NoLocals

\* A call returns: the script goes on to `next`, or ends with status 0.
Returns(call, next) ==
    /\ ran' = Append(ran, call)
    /\ pc' = next
    /\ exit_code' = CodeAt(next)
    /\ error' = error

\* A call raises an exception nothing catches: traceback, exit status 1.
Raises(call, exception) ==
    /\ ran' = Append(ran, call)
    /\ pc' = "exit"
    /\ exit_code' = 1
    /\ error' = exception

\* fast_pass: av1an exits with 0, the encode and scenes.json are written.
FastPass ==
    /\ pc = "fast_pass"
    /\ \E scenes \in ScenesWritten :
          scenes_file' = [exists |-> TRUE, scenes |-> scenes]
    /\ Returns("fast_pass", IF args.stage = 0 THEN "get_ranges" ELSE "exit")
    /\ UNCHANGED <<args, ssimu2zig, ssimu2_log, xpsnr_log, zones_txt, zoneVars, stdVars>>

\* fast_pass: av1an exits with another status, subprocess.run(check=True)
\* raises CalledProcessError.
FastPassFails ==
    /\ pc = "fast_pass"
    /\ Raises("fast_pass", "CalledProcessError")
    /\ UNCHANGED <<args, ssimu2zig, fileVars, zoneVars, stdVars>>

\* get_ranges: open() on a scenes file that does not exist.
GetRangesRaise ==
    /\ pc = "get_ranges"
    /\ ~scenes_file.exists
    /\ Raises("get_ranges", "FileNotFoundError")
    /\ UNCHANGED <<args, ssimu2zig, fileVars, zoneVars, stdVars>>

\* calculate_xpsnr: ffmpeg exits with 0 and leaves one line per frame.
CalculateXpsnr ==
    /\ pc = "calculate_xpsnr"
    /\ \E shape \in XpsnrShapes :
          xpsnr_log' = [exists |-> TRUE,
                        lines |-> [i \in 1..TotalFrames(ranges) |-> YuvAt(shape, i)]]
    /\ Returns("calculate_xpsnr", NextCall(args, "calculate_xpsnr"))
    /\ UNCHANGED <<args, ssimu2zig, scenes_file, ssimu2_log, zones_txt, zoneVars, stdVars>>

\* print("XPSNR encountered an error, exiting.")
XpsnrError == "XPSNR encountered an error"

\* ffmpeg exits with another status and the script only prints and goes on,
\* to compare against.
CalculateXpsnrGoesOn ==
    /\ pc = "calculate_xpsnr"
    /\ ran' = ran \o <<"calculate_xpsnr", XpsnrError>>
    /\ pc' = NextCall(args, "calculate_xpsnr")
    /\ exit_code' = CodeAt(NextCall(args, "calculate_xpsnr"))
    /\ UNCHANGED <<args, ssimu2zig, error, fileVars, zoneVars, stdVars>>

\* calculate_xpsnr: ffmpeg exits with another status, the message is printed
\* and exit(-2) ends the run.
CalculateXpsnrFails ==
    /\ pc = "calculate_xpsnr"
    /\ ran' = ran \o <<"calculate_xpsnr", XpsnrError>>
    /\ pc' = "exit"
    /\ exit_code' = 254
    /\ UNCHANGED <<args, ssimu2zig, error, fileVars, zoneVars, stdVars>>

\* The log calculate_ssimu2 writes: "skip: {skip}" and n numbered scores.
Ssimu2Written(stride, shape, n) ==
    [exists |-> TRUE, header |-> TRUE, skip |-> stride, lines |-> ScoreLines(shape, n)]

\* calculate_ssimu2 with turbo-metrics installed and no -S: turbo-metrics
\* exits with 0; the header records skip, one score per frame follows.
Ssimu2TurboMetrics ==
    /\ pc = "calculate_ssimu2"
    /\ ~ssimu2zig
    /\ ~args.skip_given
    /\ \E shape \in ToolShapes :
          ssimu2_log' = Ssimu2Written(skip(args, ssimu2zig), shape, TotalFrames(ranges))
    /\ Returns("calculate_ssimu2", NextCall(args, "calculate_ssimu2"))
    /\ UNCHANGED <<args, ssimu2zig, scenes_file, xpsnr_log, zones_txt, zoneVars, stdVars>>

\* calculate_ssimu2 with turbo-metrics installed and -S given: skip is the
\* string of the command line and `every > 1` raises TypeError.
Ssimu2TurboTypeError ==
    /\ pc = "calculate_ssimu2"
    /\ ~ssimu2zig
    /\ args.skip_given
    /\ Raises("calculate_ssimu2", "TypeError")
    /\ UNCHANGED <<args, ssimu2zig, fileVars, zoneVars, stdVars>>

\* calculate_ssimu2 with turbo-metrics installed and no -S: turbo-metrics
\* exits with another status, skip becomes '3' and vs-zip is used.
Ssimu2Fallback ==
    /\ pc = "calculate_ssimu2"
    /\ ~ssimu2zig
    /\ ~args.skip_given
    /\ \E shape \in ToolShapes :
          ssimu2_log' = Ssimu2Written(3, shape, VsZipCount(ranges, 1, 3))
    /\ Returns("calculate_ssimu2", NextCall(args, "calculate_ssimu2"))
    /\ UNCHANGED <<args, ssimu2zig, scenes_file, xpsnr_log, zones_txt, zoneVars, stdVars>>

\* calculate_ssimu2 without turbo-metrics: vs-zip with skip.
Ssimu2VsZip ==
    /\ pc = "calculate_ssimu2"
    /\ ssimu2zig
    /\ \E shape \in ToolShapes :
          ssimu2_log' = Ssimu2Written(skip(args, ssimu2zig), shape,
                                      VsZipCount(ranges, 1, skip(args, ssimu2zig)))
    /\ Returns("calculate_ssimu2", NextCall(args, "calculate_ssimu2"))
    /\ UNCHANGED <<args, ssimu2zig, scenes_file, xpsnr_log, zones_txt, zoneVars, stdVars>>

\* calculate_zones with a method no case matches: the call returns at once.
CalculateZonesNoMatch ==
    /\ pc = "calculate_zones"
    /\ args.zones \notin 1..4
    /\ Returns("calculate_zones", "exit")
    /\ UNCHANGED <<args, ssimu2zig, fileVars, zoneVars, stdVars>>

\* match stage, case _: the message is printed and the script ends.
InvalidStage ==
    /\ pc = "invalid"
    /\ pc' = "exit"
    /\ exit_code' = 0
    /\ UNCHANGED <<args, ssimu2zig, error, ran, fileVars, zoneVars, stdVars>>

Next ==
    \/ FastPass
    \/ FastPassFails
    \/ GetRanges
    \/ GetRangesRaise
    \/ CalculateXpsnr
    \/ CalculateXpsnrFails
    \/ Ssimu2TurboMetrics
    \/ Ssimu2TurboTypeError
    \/ Ssimu2Fallback
    \/ Ssimu2VsZip
    \/ CalculateZones
    \/ CalculateZonesNoMatch
    \/ InvalidStage

Spec == Init /\ [][Next]_vars

\* ------------------------------------------------- claims about the run

\* C5: whenever this run wrote the SSIMU2 log and -S was not given, the
\* stride recorded in the header is at least 1, on every backend path.
C5_DefaultStrideAtLeastOne ==
    (Did("calculate_ssimu2") /\ ~args.skip_given) => ssimu2_log.skip >= 1

StageCalls(a) == <<"fast_pass", "get_ranges">> \o CallsAfterRanges(a)

CallNames ==
    {"fast_pass", "get_ranges", "calculate_xpsnr", "calculate_ssimu2", "calculate_zones"}

IsCall(entry) == entry \in CallNames

\* The calls this run has made, without what they reported.
CallsMade == SelectSeq(ran, IsCall)

\* The fast-pass encoder or the XPSNR tool exited with a non-zero status.
ToolFailed == error = "CalledProcessError" \/ Did(XpsnrError)

\* C12: in the full pipeline the calls are made in the order fast pass,
\* scene loading, metrics, zone generation, one at a time, the next starting
\* where the completed ones end; once the fast-pass encoder or the XPSNR tool
\* has exited non-zero the run is over with a non-zero exit status and zone
\* generation never starts; a zones file changes only in a step in which
\* zone generation reports its write, so none is written in such a run.
C12_InOrderAndAbortOnFailure ==
    /\ [](args.stage = 0 =>
            /\ Len(CallsMade) <= Len(StageCalls(args))
            /\ CallsMade = SubSeq(StageCalls(args), 1, Len(CallsMade))
            /\ pc \in CallNames => pc = StageCalls(args)[Len(CallsMade) + 1]
            /\ Did("zones written") => CallsMade = StageCalls(args))
    /\ [](ToolFailed =>
            [](/\ pc = "exit"
               /\ exit_code > 0
               /\ ~Did("calculate_zones")
               /\ ~Did("zones written")))
    /\ [][zones_txt' # zones_txt =>
            (pc = "calculate_zones" /\ ~Did("zones written") /\ Did("zones written")')]_vars

\* C12 witness: a full run over stale zones files in which the fast pass and
\* the scene loading completed and the XPSNR tool then failed: the run is
\* over and every zones file is as it was.
C12_Witness ==
    /\ args.stage = 0
    /\ args.zones \in 1..4
    /\ CallsMade = <<"fast_pass", "get_ranges", "calculate_xpsnr">>
    /\ Did(XpsnrError)
    /\ pc = "exit"
    /\ exit_code = 254
    /\ \A p \in ZonePaths : zones_txt[p] = StaleZones

====
